---- MODULE Spec2Model ----
(***************************************************************************)
(* Model of the MX_Local_DNS session core:                                 *)
(*   - MerakiAPIWrapper (src/meraki_tools/meraki_api_utils.py): credential *)
(*     and scope state, the optional organization / network caches;        *)
(*   - ProjectLogic (src/project_logic.py): the REST request function and  *)
(*     the domain operations built on it.                                  *)
(* Python None is the string None below; "" is the empty string.  Both are *)
(* falsy, every other string is truthy.                                    *)
(***************************************************************************)
EXTENDS Integers, Sequences, FiniteSets, TLC

\* ------------------------------------------------------------------ bounds
MaxKeys == 1
MaxOrgs == 1

KeyPool == <<"k1", "k2", "k3">>
OrgPool == <<"o1", "o2", "o3">>

None == "<None>"
EnvKey == "kEnv"

Keys == {KeyPool[i] : i \in 1..MaxKeys}
OrgIds == {OrgPool[i] : i \in 1..MaxOrgs}
\* network ids supplied by callers
NetIds == {"n1"}
\* organization / network names supplied by callers
Names == {"N1"}

\* Python truthiness of an optional string
Truthy(v) == v # None /\ v # ""

VARIABLES
  env_api_key,                \* os.getenv("MK_CSM_KEY")
  api_key,                    \* self._api_key
  dashboard,                  \* self._dashboard: the key the client was built from, or None
  organization_id,            \* self._organization_id
  organization_name,          \* self._organization_name
  network_id,                 \* self._network_id
  network_name,               \* self._network_name
  enable_caching,             \* self._enable_caching
  organizations_cache,        \* self._organizations_cache
  networks_cache,             \* self._networks_cache
  required_app_setup_param,   \* self._required_app_setup_param
  failedSlots,                \* cache slots a failed fetch has written so far
  preSet,                     \* which scope fields were set when the last operation began
  lastOp,                     \* the operation that ran last and its arguments
  lastRet,                    \* what it returned (or that it raised)
  vendorCalls,                \* vendor SDK calls it made
  httpSent,                   \* HTTP requests it sent
  vendor,                     \* what the vendor holds for the organization
  log_entries,                \* my_logging.log_entries
  last_displayed_log_index,   \* the module global of container_page / meraki_ui
  log_entries_lock,           \* who holds log_entries_lock, or None
  pollers,                    \* each session's update_log_display thread
  display                     \* what each session's log display shows

scopeVars == <<api_key, dashboard, organization_id, organization_name,
               network_id, network_name>>
cacheVars == <<organizations_cache, networks_cache, failedSlots>>
obsVars == <<preSet, lastOp, lastRet, vendorCalls, httpSent>>
logVars == <<log_entries, last_displayed_log_index, log_entries_lock, pollers, display>>
wrapperVars == <<env_api_key, api_key, dashboard, organization_id, organization_name,
                 network_id, network_name, enable_caching, organizations_cache,
                 networks_cache, required_app_setup_param, failedSlots, preSet, lastOp,
                 lastRet, vendorCalls, httpSent, vendor>>
vars == <<env_api_key, api_key, dashboard, organization_id, organization_name,
          network_id, network_name, enable_caching, organizations_cache,
          networks_cache, required_app_setup_param, failedSlots, preSet, lastOp,
          lastRet,
          vendorCalls, httpSent, vendor,
          log_entries, last_displayed_log_index, log_entries_lock, pollers, display>>

\* ------------------------------------------------------------ log display
\* the sessions of the process, each with its own poller thread and display
Sessions == {"s1", "s2"}
\* a poller thread: where it is in update_log_display, its locals
\* current_log_count, i and entry, how often rendering has raised, and how
\* many entries the buffer held once the thread had started
Poller(pc, count, i, entry, raised, started) ==
  [pc |-> pc, current_log_count |-> count, i |-> i, entry |-> entry, raised |-> raised,
   started |-> started]
NoLog ==
  /\ log_entries = <<>>
  /\ last_displayed_log_index = 0
  /\ log_entries_lock = None
  /\ pollers = [s \in Sessions |-> Poller("off", 0, 0, 0, 0, 0)]
  /\ display = [s \in Sessions |-> <<>>]

\* ------------------------------------------------------- values and records
\* An optional list: Python None, or a list (a sequence of ids)
NoList == [some |-> FALSE, val |-> <<>>]
SomeList(l) == [some |-> TRUE, val |-> l]

\* required-flags dictionaries; empty is the dict {} (.get defaults every flag to False)
Flags(e, a, o, n) == [empty |-> e, api_key |-> a, organization_id |-> o, network_id |-> n]
EmptyFlags == Flags(TRUE, FALSE, FALSE, FALSE)
ReqFlags == {Flags(FALSE, a, o, n) : a \in BOOLEAN, o \in BOOLEAN, n \in BOOLEAN}
            \cup {EmptyFlags}

\* return values, one record shape for all of them
Ret(k, b, e, d, s, l) == [kind |-> k, b |-> b, error |-> e, details |-> d, status |-> s, data |-> l]
NoStatus == -2
RetVoid == Ret("void", FALSE, "", "", NoStatus, <<>>)
RetBool(b) == Ret("bool", b, "", "", NoStatus, <<>>)

RetList(rows) == Ret("list", FALSE, "", "", NoStatus, rows)
RetError(e, d) == Ret("error", FALSE, e, d, NoStatus, <<>>)
RetErrorStatus(e, d, st) == Ret("error", FALSE, e, d, st, <<>>)

\* what the vendor SDK does when called: returns a list, raises
\* meraki.APIError(status, message), or raises something else
Outcome(k, l, st) == [kind |-> k, data |-> l, status |-> st]
NoOutcome == Outcome("none", <<>>, NoStatus)
ApiErrorStatus == 500
OrgListings == {<<>>, <<OrgPool[1]>>, [i \in 1..MaxOrgs |-> OrgPool[i]]}
NetListings == {<<>>, <<"n1">>}
FetchOutcomes(listings) ==
  {Outcome("ok", l, NoStatus) : l \in listings}
  \cup {Outcome("APIError", <<>>, ApiErrorStatus), Outcome("Exception", <<>>, NoStatus)}

Op(n, r, u, a, v) == [name |-> n, req |-> r, use_cache |-> u, arg |-> a, vendor |-> v]

\* ------------------------------------------------ Credential & Scope State
is_api_key_set(k) == k # None /\ k # ""
is_organization_id_set(o) == o # None /\ o # ""
is_network_id_set(n) == n # None /\ n # ""

\* is_*_set() of the three scope fields, as a call finds them
SetFlags(k, o, n) ==
  [api_key |-> is_api_key_set(k), organization_id |-> is_organization_id_set(o),
   network_id |-> is_network_id_set(n)]
CurrentlySet == SetFlags(api_key, organization_id, network_id)

\* the key set_api_key stores: the argument, else the environment, else None
StoredApiKey(arg) ==
  IF Truthy(arg) THEN arg
  ELSE IF Truthy(env_api_key) THEN env_api_key
  ELSE None

\* the client set_api_key leaves behind for a stored key
BuiltDashboard(k) == IF Truthy(k) THEN k ELSE None

\* str(x) inside an f-string
Str(x) == IF x = None THEN "None" ELSE x
\* get_headers()["Authorization"]: f"Bearer {self._api_key}"
get_headers == [Authorization |-> <<"Bearer ", Str(api_key)>>]

\* (set_api_key_KeepsClient: an existing client is not rebuilt)
set_api_key_KeepsClient(arg) ==
  /\ api_key' = StoredApiKey(arg)
  /\ dashboard' = IF dashboard # None THEN dashboard ELSE BuiltDashboard(StoredApiKey(arg))
  /\ preSet' = CurrentlySet
  /\ lastOp' = Op("set_api_key", EmptyFlags, FALSE, arg, NoOutcome)
  /\ lastRet' = RetVoid
  /\ vendorCalls' = 0 /\ httpSent' = 0
  /\ UNCHANGED <<logVars, env_api_key, vendor, organization_id, organization_name, network_id,
                 network_name, enable_caching, cacheVars, required_app_setup_param>>
set_api_key(arg) ==
  /\ api_key' = StoredApiKey(arg)
  /\ dashboard' = BuiltDashboard(StoredApiKey(arg))
  /\ preSet' = CurrentlySet
  /\ lastOp' = Op("set_api_key", EmptyFlags, FALSE, arg, NoOutcome)
  /\ lastRet' = RetVoid
  /\ vendorCalls' = 0 /\ httpSent' = 0
  /\ UNCHANGED <<logVars, env_api_key, vendor, organization_id, organization_name, network_id,
                 network_name, enable_caching, cacheVars, required_app_setup_param>>

\* the (id, name) pair a set_organization_id / set_network_id call leaves
\* (StoredId_Unguarded: the setter without its "if id:" guard)
StoredId_Unguarded(cur, id) == id
StoredId(cur, id) == IF Truthy(id) THEN id ELSE cur
StoredName(cur, id, name) == IF Truthy(id) /\ Truthy(name) THEN name ELSE cur

set_organization_id(id, name) ==
  /\ organization_id' = StoredId(organization_id, id)
  /\ organization_name' = StoredName(organization_name, id, name)
  /\ preSet' = CurrentlySet
  /\ lastOp' = Op("set_organization_id", EmptyFlags, FALSE, None, NoOutcome)
  /\ lastRet' = RetVoid
  /\ vendorCalls' = 0 /\ httpSent' = 0
  /\ UNCHANGED <<logVars, env_api_key, vendor, api_key, dashboard, network_id, network_name,
                 enable_caching, cacheVars, required_app_setup_param>>

set_network_id(id, name) ==
  /\ network_id' = StoredId(network_id, id)
  /\ network_name' = StoredName(network_name, id, name)
  /\ preSet' = CurrentlySet
  /\ lastOp' = Op("set_network_id", EmptyFlags, FALSE, None, NoOutcome)
  /\ lastRet' = RetVoid
  /\ vendorCalls' = 0 /\ httpSent' = 0
  /\ UNCHANGED <<logVars, env_api_key, vendor, api_key, dashboard, organization_id, organization_name,
                 enable_caching, cacheVars, required_app_setup_param>>

\* (check_required_parameter_order_NoNetworkRule: the second rule left out)
check_required_parameter_order_NoNetworkRule(req) ==
  IF req.organization_id /\ ~req.api_key THEN FALSE ELSE TRUE
check_required_parameter_order(req) ==
  IF req.organization_id /\ ~req.api_key THEN FALSE
  ELSE IF req.network_id /\ (~req.api_key \/ ~req.organization_id) THEN FALSE
  ELSE TRUE

\* supplied values (app_setup_param); a missing key reads as None
Params(k, o, on, n, nn) ==
  [api_key |-> k, organization_id |-> o, org_name |-> on, network_id |-> n, net_name |-> nn]
NoParams == Params(None, None, None, None, None)
\* (a name without its id is never read, so none is supplied then)
SetupParams ==
  {Params(k, o, on, n, None) : k \in {None} \cup Keys, o \in OrgIds,
                               on \in {None} \cup Names, n \in {None} \cup NetIds}
  \cup {Params(k, None, None, n, None) : k \in {None} \cup Keys, n \in {None} \cup NetIds}
\* the supplied credential, organization id and network id the call looks
\* up: effective_params.get(...) of each required field
Supplied(req, p) ==
  [api_key |-> IF req.api_key THEN p.api_key ELSE None,
   organization_id |-> IF req.organization_id THEN p.organization_id ELSE None,
   network_id |-> IF req.network_id THEN p.network_id ELSE None]
\* the enable_caching argument: None keeps the instance's setting
CachingArgs == {None, "True", "False"}

Scope(k, d, o, on, n, nn) ==
  [api_key |-> k, dashboard |-> d, organization_id |-> o, organization_name |-> on,
   network_id |-> n, network_name |-> nn]
CurrentScope ==
  Scope(api_key, dashboard, organization_id, organization_name, network_id, network_name)

\* the api_key step of setup_application_parameters
SetupApiKeyStep(req, p, s) ==
  IF req.api_key
  THEN LET k == StoredApiKey(p.api_key)
           s1 == [s EXCEPT !.api_key = k, !.dashboard = BuiltDashboard(k)]
       IN  [ok |-> is_api_key_set(k), scope |-> s1]
  ELSE [ok |-> TRUE, scope |-> s]

\* (SetupOrganizationStep_KeepsExisting: an organization that is already set
\* satisfies the requirement when none is supplied)
SetupOrganizationStep_KeepsExisting(req, p, s) ==
  IF req.organization_id
  THEN IF ~is_api_key_set(s.api_key) THEN [ok |-> FALSE, scope |-> s]
       ELSE IF Truthy(p.organization_id)
       THEN LET s1 == [s EXCEPT
                         !.organization_id = StoredId(s.organization_id, p.organization_id),
                         !.organization_name =
                            StoredName(s.organization_name, p.organization_id, p.org_name)]
            IN  [ok |-> is_organization_id_set(s1.organization_id), scope |-> s1]
       ELSE [ok |-> is_organization_id_set(s.organization_id), scope |-> s]
  ELSE [ok |-> TRUE, scope |-> s]
\* the organization_id step
SetupOrganizationStep(req, p, s) ==
  IF req.organization_id
  THEN IF ~is_api_key_set(s.api_key) THEN [ok |-> FALSE, scope |-> s]
       ELSE IF Truthy(p.organization_id)
       THEN LET s1 == [s EXCEPT
                         !.organization_id = StoredId(s.organization_id, p.organization_id),
                         !.organization_name =
                            StoredName(s.organization_name, p.organization_id, p.org_name)]
            IN  [ok |-> is_organization_id_set(s1.organization_id), scope |-> s1]
       ELSE [ok |-> FALSE, scope |-> s]
  ELSE [ok |-> TRUE, scope |-> s]

\* the network_id step
SetupNetworkStep(req, p, s) ==
  IF req.network_id
  THEN IF ~is_api_key_set(s.api_key) \/ ~is_organization_id_set(s.organization_id)
       THEN [ok |-> FALSE, scope |-> s]
       ELSE IF Truthy(p.network_id)
       THEN LET s1 == [s EXCEPT
                         !.network_id = StoredId(s.network_id, p.network_id),
                         !.network_name = StoredName(s.network_name, p.network_id, p.net_name)]
            IN  [ok |-> is_network_id_set(s1.network_id), scope |-> s1]
       ELSE [ok |-> FALSE, scope |-> s]
  ELSE [ok |-> TRUE, scope |-> s]

\* (SetupOutcome_Rollback: a failing call puts the scope back as it found it)
SetupOutcome_Rollback(req, p) ==
  IF ~check_required_parameter_order(req)
  THEN [ret |-> FALSE, scope |-> CurrentScope, required |-> required_app_setup_param]
  ELSE LET a == SetupApiKeyStep(req, p, CurrentScope)
           o == SetupOrganizationStep(req, p, a.scope)
           n == SetupNetworkStep(req, p, o.scope)
       IN  IF a.ok /\ o.ok /\ n.ok
           THEN [ret |-> TRUE, scope |-> n.scope, required |-> req]
           ELSE [ret |-> FALSE, scope |-> CurrentScope, required |-> req]
\* the whole call: return value, scope and stored required flags it leaves
SetupOutcome(req, p) ==
  IF ~check_required_parameter_order(req)
  THEN [ret |-> FALSE, scope |-> CurrentScope, required |-> required_app_setup_param]
  ELSE LET a == SetupApiKeyStep(req, p, CurrentScope)
           o == SetupOrganizationStep(req, p, a.scope)
           n == SetupNetworkStep(req, p, o.scope)
       IN  IF ~a.ok THEN [ret |-> FALSE, scope |-> a.scope, required |-> req]
           ELSE IF ~o.ok THEN [ret |-> FALSE, scope |-> o.scope, required |-> req]
           ELSE [ret |-> n.ok, scope |-> n.scope, required |-> req]

setup_application_parameters(req, p, c) ==
  \E out \in {SetupOutcome(req, p)} :
  /\ enable_caching' = (IF c = None THEN enable_caching ELSE c = "True")
  /\ required_app_setup_param' = out.required
  /\ api_key' = out.scope.api_key
  /\ dashboard' = out.scope.dashboard
  /\ organization_id' = out.scope.organization_id
  /\ organization_name' = out.scope.organization_name
  /\ network_id' = out.scope.network_id
  /\ network_name' = out.scope.network_name
  /\ preSet' = CurrentlySet
  /\ lastOp' = Op("setup_application_parameters", req, FALSE, Supplied(req, p), NoOutcome)
  /\ lastRet' = RetBool(out.ret)
  /\ vendorCalls' = 0 /\ httpSent' = 0
  /\ UNCHANGED <<logVars, env_api_key, vendor, cacheVars>>

\* check_current_parameters_status(): (all set, missing field names)
RetStatus(all_set, missing) == Ret("status", all_set, "", "", NoStatus, missing)
MissingIf(cond, name) == IF cond THEN <<name>> ELSE <<>>
MissingParams(req) ==
  MissingIf(req.api_key /\ ~is_api_key_set(api_key), "API_KEY")
  \o MissingIf(req.organization_id /\ ~is_organization_id_set(organization_id),
               "ORGANIZATION_ID")
  \o MissingIf(req.network_id /\ ~is_network_id_set(network_id), "NETWORK_ID")
\* (the stored flags passed the order check when they were stored, so its
\* second run in this function passes too)
CurrentParametersStatus ==
  IF required_app_setup_param.empty
  THEN RetStatus(FALSE, <<"No required parameters defined">>)
  ELSE IF ~check_required_parameter_order(required_app_setup_param)
  THEN RetStatus(FALSE, <<"Invalid required_app_setup_parm configuration stored in instance">>)
  ELSE IF MissingParams(required_app_setup_param) # <<>>
  THEN RetStatus(FALSE, MissingParams(required_app_setup_param))
  ELSE RetStatus(TRUE, <<>>)

check_current_parameters_status ==
  /\ preSet' = CurrentlySet
  /\ lastOp' = Op("check_current_parameters_status", EmptyFlags, FALSE, None, NoOutcome)
  /\ lastRet' = CurrentParametersStatus
  /\ vendorCalls' = 0 /\ httpSent' = 0
  /\ UNCHANGED <<logVars, env_api_key, vendor, scopeVars, enable_caching, cacheVars, required_app_setup_param>>

\* ------------------------------------------------------------ construction
\* __init__(initial_api_key, enable_caching): everything None, then set_api_key
\* (a dict: every organization id is a possible key)
CacheKeys == OrgIds \cup {OrgPool[1], OrgPool[2]}
NoNetworksCache == [none |-> TRUE, map |-> [o \in CacheKeys |-> NoList]]

Init ==
  /\ env_api_key \in {None, EnvKey}
  /\ \E k \in {None} \cup Keys :
        /\ api_key = StoredApiKey(k)
        /\ dashboard = BuiltDashboard(StoredApiKey(k))
  /\ organization_id = None /\ organization_name = None
  /\ network_id = None /\ network_name = None
  /\ enable_caching \in BOOLEAN
  /\ organizations_cache = NoList
  /\ networks_cache = NoNetworksCache
  /\ required_app_setup_param = EmptyFlags
  /\ failedSlots = {}
  /\ preSet = SetFlags(None, None, None)
  /\ lastOp = Op("init", EmptyFlags, FALSE, None, NoOutcome)
  /\ lastRet = RetVoid
  /\ vendorCalls = 0 /\ httpSent = 0
  /\ vendor = [profiles |-> <<>>, networks |-> <<>>, assignments |-> <<>>]
  /\ NoLog

\* ------------------------------------------- scope operations, any order
SetApiKey == \E k \in {None, ""} \cup Keys : set_api_key(k)
SetOrganizationId ==
  \E id \in {None, ""} \cup OrgIds, name \in {None} \cup Names : set_organization_id(id, name)
SetNetworkId ==
  \E id \in {None, ""} \cup NetIds, name \in {None} \cup Names : set_network_id(id, name)
SetupApplicationParameters ==
  \E req \in ReqFlags, p \in SetupParams : setup_application_parameters(req, p, None)

CheckCurrentParametersStatus == check_current_parameters_status

NextScope ==
  \/ SetApiKey \/ SetOrganizationId \/ SetNetworkId \/ SetupApplicationParameters
  \/ CheckCurrentParametersStatus
\* a wrapper constructed with the default enable_caching=False
InitScope == Init /\ enable_caching = FALSE
SpecScope == InitScope /\ [][NextScope]_vars

\* the two setters called with ids and, when a name is given, the name that
\* belongs to the id
NamedOrgs == {OrgPool[1], OrgPool[2]}
NamedNets == {"n1", "n2"}
NameOf(id) ==
  CASE id = OrgPool[1] -> "Org1" [] id = OrgPool[2] -> "Org2"
    [] id = "n1" -> "Net1" [] id = "n2" -> "Net2" [] OTHER -> None
NameOrganization ==
  \E id \in {None, ""} \cup NamedOrgs :
     \E name \in {None, NameOf(id)} : set_organization_id(id, name)
NameNetwork ==
  \E id \in {None, ""} \cup NamedNets :
     \E name \in {None, NameOf(id)} : set_network_id(id, name)
NextNames == NameOrganization \/ NameNetwork \/ SetApiKey
SpecNames == InitScope /\ [][NextNames]_vars

\* ------------------------------------------------- meraki_ui.app_setup
\* what app_setup returns (the wrapper, or None) and the last step it ran
RetSetup(k, step) == Ret(k, FALSE, "", step, NoStatus, <<>>)
\* the wrapper app_setup constructs: MerakiAPIWrapper(initial_api_key=...)
FreshScope(p) ==
  Scope(StoredApiKey(p.api_key), BuiltDashboard(StoredApiKey(p.api_key)),
        None, None, None, None)
\* setup_application_parameters on that wrapper
FreshSetup(req, p) ==
  IF ~check_required_parameter_order(req)
  THEN [ret |-> FALSE, scope |-> FreshScope(p), required |-> EmptyFlags]
  ELSE LET a == SetupApiKeyStep(req, p, FreshScope(p))
           o == SetupOrganizationStep(req, p, a.scope)
           n == SetupNetworkStep(req, p, o.scope)
       IN  IF ~a.ok THEN [ret |-> FALSE, scope |-> a.scope, required |-> req]
           ELSE IF ~o.ok THEN [ret |-> FALSE, scope |-> o.scope, required |-> req]
           ELSE [ret |-> n.ok, scope |-> n.scope, required |-> req]
\* the steps after a successful setup.  get_valid_api_key,
\* retrieve_organizations and retrieve_networks are called with the wrapper
\* as an extra positional argument they do not take: the call raises
\* TypeError, which the except clause of app_setup turns into None
AppSetupReturn(req, out) ==
  IF ~out.ret THEN RetSetup("none", "setup_application_parameters")
  ELSE IF req.api_key /\ ~is_api_key_set(out.scope.api_key)
  THEN RetSetup("none", "get_valid_api_key")
  ELSE IF req.organization_id THEN RetSetup("none", "retrieve_organizations")
  ELSE IF req.network_id THEN RetSetup("none", "retrieve_networks")
  ELSE IF req.empty THEN RetSetup("none", "check_current_parameters_status")
  ELSE RetSetup("wrapper", "check_current_parameters_status")

app_setup(req, p, c) ==
  \E out \in {FreshSetup(req, p)} :
  /\ enable_caching' = (c = "True")
  /\ required_app_setup_param' = out.required
  /\ api_key' = out.scope.api_key
  /\ dashboard' = out.scope.dashboard
  /\ organization_id' = out.scope.organization_id
  /\ organization_name' = out.scope.organization_name
  /\ network_id' = out.scope.network_id
  /\ network_name' = out.scope.network_name
  /\ organizations_cache' = NoList
  /\ networks_cache' = NoNetworksCache
  /\ failedSlots' = {}
  /\ preSet' = SetFlags(None, None, None)
  /\ lastOp' = Op("app_setup", req, FALSE, Supplied(req, p), NoOutcome)
  /\ lastRet' = AppSetupReturn(req, out)
  /\ vendorCalls' = 0 /\ httpSent' = 0
  /\ UNCHANGED <<logVars, env_api_key, vendor>>

AppSetup ==
  \E req \in ReqFlags, p \in SetupParams, c \in CachingArgs : app_setup(req, p, c)
SpecSetup == InitScope /\ [][AppSetup]_vars

\* ------------------------------------------------------ parameter view
\* keys of every length up to MaxKeyLen, and the characters of a key
MaxKeyLen == 6
TextPool == <<"a", "ab", "abc", "abcd", "abcde", "abcdef", "abcdefg", "abcdefgh">>
KeyChars == <<"a", "b", "c", "d", "e", "f", "g", "h">>
TextKeys == {TextPool[n] : n \in 1..MaxKeyLen}
Chars(k) ==
  IF k = "" THEN <<>>
  ELSE LET n == CHOOSE m \in 1..Len(TextPool) : TextPool[m] = k
       IN  [i \in 1..n |-> KeyChars[i]]
Max(a, b) == IF a >= b THEN a ELSE b
\* text[-4:]
LastFour(text) == SubSeq(text, Max(Len(text) - 4, 0) + 1, Len(text))
\* "*" * max(len(api_key) - 4, 0) + api_key[-4:] if api_key else "N/A"
MaskedApiKey(k) ==
  IF Truthy(k)
  THEN [i \in 1..Max(Len(Chars(k)) - 4, 0) |-> "*"] \o LastFour(Chars(k))
  ELSE <<"N", "/", "A">>
\* the api_key entry of the returned dictionary: present or not, its value
RetParams(present, value) == Ret("params", present, "", "", NoStatus, value)

\* MerakiAPIWrapper.get_current_app_params()
get_current_app_params ==
  /\ lastRet' = IF required_app_setup_param.api_key
                THEN RetParams(TRUE, MaskedApiKey(api_key))
                ELSE RetParams(FALSE, <<>>)
  /\ preSet' = CurrentlySet
  /\ lastOp' = Op("get_current_app_params", EmptyFlags, FALSE, None, NoOutcome)
  /\ vendorCalls' = 0 /\ httpSent' = 0
  /\ UNCHANGED <<logVars, env_api_key, vendor, scopeVars, enable_caching, cacheVars, required_app_setup_param>>
\* local_dns_logic.get_current_params(), API_KEY being the module's key
get_current_params ==
  /\ lastRet' = RetParams(TRUE, MaskedApiKey(api_key))
  /\ preSet' = CurrentlySet
  /\ lastOp' = Op("get_current_params", EmptyFlags, FALSE, None, NoOutcome)
  /\ vendorCalls' = 0 /\ httpSent' = 0
  /\ UNCHANGED <<logVars, env_api_key, vendor, scopeVars, enable_caching, cacheVars, required_app_setup_param>>

\* a wrapper holding any key (or none) and any stored required flags
InitMask ==
  /\ env_api_key = None
  /\ api_key \in {None} \cup TextKeys
  /\ dashboard = BuiltDashboard(api_key)
  /\ organization_id = None /\ organization_name = None
  /\ network_id = None /\ network_name = None
  /\ enable_caching \in BOOLEAN
  /\ organizations_cache = NoList
  /\ networks_cache = NoNetworksCache
  /\ required_app_setup_param \in {r \in ReqFlags : check_required_parameter_order(r)}
  /\ failedSlots = {}
  /\ preSet = SetFlags(None, None, None)
  /\ lastOp = Op("init", EmptyFlags, FALSE, None, NoOutcome)
  /\ lastRet = RetVoid
  /\ vendorCalls = 0 /\ httpSent = 0
  /\ vendor = [profiles |-> <<>>, networks |-> <<>>, assignments |-> <<>>]
  /\ NoLog
NextMask == get_current_app_params \/ get_current_params
SpecMask == InitMask /\ [][NextMask]_vars

\* --------------------------------------------------------- Cache Layer
\* get_dashboard(): the existing client, else one built from the key, else None
get_dashboard == IF dashboard # None THEN dashboard
                 ELSE IF ~Truthy(api_key) THEN None
                 ELSE api_key

\* a fetch into one cache slot: what is returned, what the slot holds
\* afterwards, and whether the vendor was called
Fetched(ret, slot, calls, dash) == [ret |-> ret, slot |-> slot, calls |-> calls, dash |-> dash]
\* the slot of the organizations cache, next to the networks-cache keys
OrgsSlot == "organizations"
\* the slots written by failed fetches, after one more fetch f into slot
FailedAfter(f, slot) ==
  IF f.calls = 1 /\ f.ret.kind = "error" /\ enable_caching
  THEN failedSlots \cup {slot} ELSE failedSlots

\* (FetchFresh_NoNegativeCache: a failed fetch leaves the slot as it was)
FetchFresh_NoNegativeCache(slot, out) ==
  LET d == get_dashboard IN
  IF d = None
  THEN Fetched(RetError("DashboardAPIError", "Meraki Dashboard API not initialized."),
               slot, 0, d)
  ELSE IF out.kind = "ok"
  THEN Fetched(RetList(out.data), IF enable_caching THEN SomeList(out.data) ELSE slot, 1, d)
  ELSE IF out.kind = "APIError"
  THEN Fetched(RetErrorStatus("MerakiAPIError", "e.message", out.status), slot, 1, d)
  ELSE Fetched(RetError("UnexpectedError", "str(e)"), slot, 1, d)
\* the else-branch shared by _get_organizations and _get_networks
FetchFresh(slot, out) ==
  LET d == get_dashboard IN
  IF d = None
  THEN Fetched(RetError("DashboardAPIError", "Meraki Dashboard API not initialized."),
               slot, 0, d)
  ELSE IF out.kind = "ok"
  THEN Fetched(RetList(out.data), IF enable_caching THEN SomeList(out.data) ELSE slot, 1, d)
  ELSE IF out.kind = "APIError"
  THEN Fetched(RetErrorStatus("MerakiAPIError", "e.message", out.status),
               IF enable_caching THEN SomeList(<<>>) ELSE slot, 1, d)
  ELSE Fetched(RetError("UnexpectedError", "str(e)"),
               IF enable_caching THEN SomeList(<<>>) ELSE slot, 1, d)

\* (get_organizations_CacheFirst: the cache is read whatever use_cache says)
get_organizations_CacheFirst(use_cache, out) ==
  IF enable_caching /\ organizations_cache.some
  THEN Fetched(RetList(organizations_cache.val), organizations_cache, 0, dashboard)
  ELSE FetchFresh(organizations_cache, out)
get_organizations(use_cache, out) ==
  IF (use_cache /\ enable_caching) /\ organizations_cache.some
  THEN Fetched(RetList(organizations_cache.val), organizations_cache, 0, dashboard)
  ELSE FetchFresh(organizations_cache, out)

\* the display rows of a listing
FormatRows(l) == [i \in 1..Len(l) |-> [id |-> l[i]]]

\* list_organizations / list_networks on the raw response
FormatListing(raw) ==
  IF raw.kind = "error" THEN raw
  ELSE IF raw.data = <<>> THEN RetList(<<>>)
  ELSE RetList(FormatRows(raw.data))

list_organizations(use_cache, out) ==
  \E f \in {get_organizations(use_cache, out)} :
  /\ organizations_cache' = f.slot
  /\ failedSlots' = FailedAfter(f, OrgsSlot)
  /\ dashboard' = f.dash
  /\ preSet' = CurrentlySet
  /\ lastOp' = Op("list_organizations", EmptyFlags, use_cache, None, out)
  /\ lastRet' = FormatListing(f.ret)
  /\ vendorCalls' = f.calls /\ httpSent' = 0
  /\ UNCHANGED <<logVars, env_api_key, vendor, api_key, organization_id, organization_name, network_id,
                 network_name, enable_caching, networks_cache, required_app_setup_param>>

\* the organization a network listing is for: the argument unless it is None
ResolvedOrganization(arg) == IF arg # None THEN arg ELSE organization_id

\* _get_networks once an organization id is resolved; the cache is a dict by then
get_networks(org, use_cache, out) ==
  IF (use_cache /\ enable_caching) /\ networks_cache.map[org].some
  THEN Fetched(RetList(networks_cache.map[org].val), networks_cache.map[org], 0, dashboard)
  ELSE FetchFresh(networks_cache.map[org], out)

\* (list_networks_ClearsOthers: a fetch drops the other organizations' entries)
list_networks_ClearsOthers(arg, use_cache, out) ==
  /\ IF ~Truthy(ResolvedOrganization(arg))
     THEN /\ lastRet' = RetError("NoOrganizationSelected", "Please select an organization first.")
          /\ vendorCalls' = 0
          /\ UNCHANGED <<networks_cache, failedSlots, dashboard>>
     ELSE \E f \in {get_networks(ResolvedOrganization(arg), use_cache, out)} :
          /\ networks_cache' = [none |-> FALSE,
                                map |-> [o \in CacheKeys |->
                                           IF o = ResolvedOrganization(arg) THEN f.slot
                                           ELSE IF f.calls = 1 THEN NoList
                                           ELSE networks_cache.map[o]]]
          /\ failedSlots' = FailedAfter(f, ResolvedOrganization(arg))
          /\ dashboard' = f.dash
          /\ lastRet' = FormatListing(f.ret)
          /\ vendorCalls' = f.calls
  /\ preSet' = CurrentlySet
  /\ lastOp' = Op("list_networks", EmptyFlags, use_cache, arg, out)
  /\ httpSent' = 0
  /\ UNCHANGED <<logVars, env_api_key, vendor, api_key, organization_id, organization_name, network_id,
                 network_name, enable_caching, organizations_cache, required_app_setup_param>>
list_networks(arg, use_cache, out) ==
  /\ IF ~Truthy(ResolvedOrganization(arg))
     THEN /\ lastRet' = RetError("NoOrganizationSelected", "Please select an organization first.")
          /\ vendorCalls' = 0
          /\ UNCHANGED <<networks_cache, failedSlots, dashboard>>
     ELSE \E f \in {get_networks(ResolvedOrganization(arg), use_cache, out)} :
          /\ networks_cache' = [none |-> FALSE,
                                map |-> [networks_cache.map EXCEPT
                                           ![ResolvedOrganization(arg)] = f.slot]]
          /\ failedSlots' = FailedAfter(f, ResolvedOrganization(arg))
          /\ dashboard' = f.dash
          /\ lastRet' = FormatListing(f.ret)
          /\ vendorCalls' = f.calls
  /\ preSet' = CurrentlySet
  /\ lastOp' = Op("list_networks", EmptyFlags, use_cache, arg, out)
  /\ httpSent' = 0
  /\ UNCHANGED <<logVars, env_api_key, vendor, api_key, organization_id, organization_name, network_id,
                 network_name, enable_caching, organizations_cache, required_app_setup_param>>

\* ------------------------------------- listings on one wrapper, any order
ListOrganizations ==
  \E u \in BOOLEAN, out \in FetchOutcomes(OrgListings) : list_organizations(u, out)
ListNetworks ==
  \E arg \in {None, ""} \cup OrgIds, u \in BOOLEAN, out \in FetchOutcomes(NetListings) :
     list_networks(arg, u, out)
SelectOrganization == \E id \in OrgIds : set_organization_id(id, None)
SwitchCaching ==
  \E c \in CachingArgs :
     setup_application_parameters(Flags(FALSE, FALSE, FALSE, FALSE), NoParams, c)

\* a wrapper built with or without a key, the environment holding none
InitCache == Init /\ env_api_key = None /\ api_key \in {None, KeyPool[1]}
NextCache == ListOrganizations \/ ListNetworks \/ SelectOrganization \/ SwitchCaching
SpecCache == InitCache /\ [][NextCache]_vars

\* listings for two organizations on a wrapper built with a key and caching
ListNetworksOf ==
  \E arg \in NamedOrgs, u \in BOOLEAN, out \in FetchOutcomes(NetListings) :
     list_networks(arg, u, out)
InitSlots == InitCache /\ api_key = KeyPool[1] /\ enable_caching = TRUE
NextSlots == ListOrganizations \/ ListNetworksOf
SpecSlots == InitSlots /\ [][NextSlots]_vars

\* --------------------------------------------------------- REST Client
\* what requests.request does: a response (status, body text), or a transport
\* exception; modern tells whether response.json() raises the requests
\* JSONDecodeError (requests >= 2.27) or a plain ValueError
Http(k, st, b, m) == [kind |-> k, status |-> st, body |-> b, modern |-> m]
Statuses == {200, 204, 404, 500}
BodyProfile == "{\"profileId\": \"p1\", \"name\": \"Test\"}"
BodyRecord == "{\"recordId\": \"r1\", \"hostname\": \"h\", \"address\": \"a\"}"
BodyItems == "{\"items\": [{\"recordId\": \"r1\"}]}"
BodyArray == "[{\"profileId\": \"p1\"}]"
BodyText == "Not Found"
Bodies == {"", " ", BodyProfile, BodyRecord, BodyItems, BodyArray, BodyText}
TransportErrors == {"ConnectionError", "ConnectTimeout", "ReadTimeout", "TooManyRedirects",
                    "TypeError"}
HttpOutcomes ==
  {Http("response", st, b, TRUE) : st \in Statuses, b \in Bodies}
  \cup {Http("response", st, BodyText, FALSE) : st \in Statuses}
  \cup {Http(e, 0, "", TRUE) : e \in TransportErrors}

\* response.text.strip()
Strip(b) == IF b = " " THEN "" ELSE b
\* response.json(): the parsed value, by its Python type and the keys read later
Json(t, pid, nm, rid, items) ==
  [type |-> t, profileId |-> pid, name |-> nm, recordId |-> rid, items |-> items]
ParseJson(b) ==
  CASE b = BodyProfile -> Json("dict", "p1", "Test", None, NoList)
    [] b = BodyRecord -> Json("dict", None, None, "r1", NoList)
    [] b = BodyItems -> Json("dict", None, None, None, SomeList(<<"r1">>))
    [] b = BodyArray -> Json("list", None, None, None, NoList)
    [] OTHER -> Json("invalid", None, None, None, NoList)

\* the classes of an exception, as the except clauses test them
Bases(e) ==
  CASE e = "HTTPError" -> {"HTTPError", "RequestException", "Exception"}
    [] e = "ConnectionError" -> {"ConnectionError", "RequestException", "Exception"}
    [] e = "ConnectTimeout" ->
         {"ConnectTimeout", "ConnectionError", "Timeout", "RequestException", "Exception"}
    [] e = "ReadTimeout" -> {"ReadTimeout", "Timeout", "RequestException", "Exception"}
    [] e = "TooManyRedirects" -> {"TooManyRedirects", "RequestException", "Exception"}
    [] e = "JSONDecodeError" -> {"JSONDecodeError", "RequestException", "Exception"}
    [] OTHER -> {"Exception"}

\* the except clauses of _make_request, in their order
Handlers == <<"HTTPError", "ConnectionError", "Timeout", "RequestException", "Exception">>
Handler(e) == Handlers[CHOOSE i \in 1..Len(Handlers) :
                         /\ Handlers[i] \in Bases(e)
                         /\ \A j \in 1..(i - 1) : Handlers[j] \notin Bases(e)]

\* response.raise_for_status() raises HTTPError
RaisesForStatus(st) == st >= 400 /\ st < 600
\* bool(response): requests.Response.__bool__ is response.ok
ResponseTruthy(st) == ~RaisesForStatus(st)
StatusUnknown == -1

RetNone == Ret("none", FALSE, "", "", NoStatus, <<>>)
RetJson(j, b) == Ret(j.type, FALSE, "", b, NoStatus, <<j>>)
RetRaise(e) == Ret("raise", FALSE, e, "", NoStatus, <<>>)

\* (ErrorRecord_RawKind: the last clause reports the exception's class name)
ErrorRecord_RawKind(e, st, b) ==
  CASE Handler(e) = "HTTPError" ->
         RetErrorStatus("HTTPError",
                        IF ResponseTruthy(st) THEN b ELSE "No response text",
                        IF ResponseTruthy(st) THEN st ELSE StatusUnknown)
    [] Handler(e) = "ConnectionError" -> RetError("ConnectionError", "str(conn_err)")
    [] Handler(e) = "Timeout" -> RetError("TimeoutError", "str(timeout_err)")
    [] Handler(e) = "RequestException" -> RetError("RequestException", "str(req_err)")
    [] OTHER -> RetError(e, "str(e)")
\* the record an except clause returns
ErrorRecord(e, st, b) ==
  CASE Handler(e) = "HTTPError" ->
         RetErrorStatus("HTTPError",
                        IF ResponseTruthy(st) THEN b ELSE "No response text",
                        IF ResponseTruthy(st) THEN st ELSE StatusUnknown)
    [] Handler(e) = "ConnectionError" -> RetError("ConnectionError", "str(conn_err)")
    [] Handler(e) = "Timeout" -> RetError("TimeoutError", "str(timeout_err)")
    [] Handler(e) = "RequestException" -> RetError("RequestException", "str(req_err)")
    [] OTHER -> RetError("UnexpectedError", "str(e)")

\* _make_request: the value returned for what requests.request did
make_request(http) ==
  IF http.kind # "response" THEN ErrorRecord(http.kind, 0, "")
  ELSE IF RaisesForStatus(http.status) THEN ErrorRecord("HTTPError", http.status, http.body)
  ELSE IF Strip(http.body) = "" THEN RetNone
  ELSE IF ParseJson(http.body).type = "invalid"
  THEN ErrorRecord(IF http.modern THEN "JSONDecodeError" ELSE "ValueError", 0, "")
  ELSE RetJson(ParseJson(http.body), http.body)

\* the organization id templated into the URL: str(get_organization_id())
UrlOrganization == IF organization_id = None THEN "None" ELSE organization_id

\* ---------------------------------------------------- Domain Operations
IsErrorRecord(r) == r.kind = "error"

\* (RestFrame_Resend: the request is sent a second time)
RestFrame_Resend ==
  /\ preSet' = CurrentlySet
  /\ vendorCalls' = 0 /\ httpSent' = 2
  /\ UNCHANGED <<logVars, env_api_key, vendor, scopeVars, enable_caching, cacheVars, required_app_setup_param>>
\* what every single-request domain operation leaves alone: the wrapper
RestFrame ==
  /\ preSet' = CurrentlySet
  /\ vendorCalls' = 0 /\ httpSent' = 1
  /\ UNCHANGED <<logVars, env_api_key, vendor, scopeVars, enable_caching, cacheVars, required_app_setup_param>>

\* (create_profile_Invalidating: the call also drops the networks cache)
create_profile_Invalidating(profile_name, http) ==
  /\ lastOp' = Op("create_profile", EmptyFlags, FALSE, profile_name, http)
  /\ \E r \in {make_request(http)} :
       lastRet' = IF IsErrorRecord(r) THEN r
                  ELSE IF r.kind # "dict" THEN RetRaise("AttributeError")
                  ELSE Ret("dict", FALSE, "", "", NoStatus,
                           <<r.data[1].profileId, r.data[1].name>>)
  /\ preSet' = CurrentlySet
  /\ vendorCalls' = 0 /\ httpSent' = 1
  /\ networks_cache' = NoNetworksCache
  /\ UNCHANGED <<logVars, env_api_key, vendor, scopeVars, enable_caching, organizations_cache, failedSlots,
                 required_app_setup_param>>
create_profile(profile_name, http) ==
  /\ lastOp' = Op("create_profile", EmptyFlags, FALSE, profile_name, http)
  /\ \E r \in {make_request(http)} :
       lastRet' = IF IsErrorRecord(r) THEN r
                  ELSE IF r.kind # "dict" THEN RetRaise("AttributeError")
                  ELSE Ret("dict", FALSE, "", "", NoStatus,
                           <<r.data[1].profileId, r.data[1].name>>)
  /\ RestFrame

\* (delete_profile_Normalized: success is turned into an empty list)
delete_profile_Normalized(profile_id, http) ==
  /\ lastOp' = Op("delete_profile", EmptyFlags, FALSE, profile_id, http)
  /\ \E r \in {make_request(http)} :
       lastRet' = IF IsErrorRecord(r) THEN r ELSE RetList(<<>>)
  /\ RestFrame
delete_profile(profile_id, http) ==
  /\ lastOp' = Op("delete_profile", EmptyFlags, FALSE, profile_id, http)
  /\ lastRet' = make_request(http)
  /\ RestFrame

create_dns_record(profile_id, http) ==
  /\ lastOp' = Op("create_dns_record", EmptyFlags, FALSE, profile_id, http)
  /\ \E r \in {make_request(http)} :
       lastRet' = IF IsErrorRecord(r) THEN r
                  ELSE IF r.kind # "dict" THEN RetRaise("AttributeError")
                  ELSE r
  /\ RestFrame

list_dns_records(http) ==
  /\ lastOp' = Op("list_dns_records", EmptyFlags, FALSE, None, http)
  /\ \E r \in {make_request(http)} :
       lastRet' = IF IsErrorRecord(r) THEN r
                  ELSE IF r.kind = "dict" /\ r.data[1].items.some
                  THEN RetList(FormatRows(r.data[1].items.val))
                  ELSE RetList(<<>>)
  /\ RestFrame

delete_dns_record(record_id, http) ==
  /\ lastOp' = Op("delete_dns_record", EmptyFlags, FALSE, record_id, http)
  /\ lastRet' = make_request(http)
  /\ RestFrame

assign_profile_to_network(network, profile_id, http) ==
  /\ lastOp' = Op("assign_profile_to_network", EmptyFlags, FALSE, profile_id, http)
  /\ lastRet' = make_request(http)
  /\ RestFrame

remove_network_assignment(assignment_id, http) ==
  /\ lastOp' = Op("remove_network_assignment", EmptyFlags, FALSE, assignment_id, http)
  /\ lastRet' = make_request(http)
  /\ RestFrame

CreateProfile == \E h \in HttpOutcomes : create_profile("Test", h)
DeleteProfile == \E h \in HttpOutcomes : delete_profile("p1", h)
CreateDnsRecord == \E h \in HttpOutcomes : create_dns_record("p1", h)
ListDnsRecords == \E h \in HttpOutcomes : list_dns_records(h)
DeleteDnsRecord == \E h \in HttpOutcomes : delete_dns_record("r1", h)
AssignProfileToNetwork == \E h \in HttpOutcomes : assign_profile_to_network("n1", "p1", h)
RemoveNetworkAssignment == \E h \in HttpOutcomes : remove_network_assignment("a1", h)

\* a ProjectLogic on a wrapper built with or without a key; the organization
\* is selected at some point, or never
InitRest == InitCache
NextRest ==
  \/ SelectOrganization
  \/ CreateProfile \/ DeleteProfile
  \/ CreateDnsRecord \/ ListDnsRecords \/ DeleteDnsRecord
  \/ AssignProfileToNetwork \/ RemoveNetworkAssignment
SpecRest == InitRest /\ [][NextRest]_vars

\* the listings and the domain operations on one wrapper built without
\* caching: every operation that returns structured errors
InitErrors == InitCache /\ enable_caching = FALSE
NextErrors == ListOrganizations \/ ListNetworks \/ NextRest
SpecErrors == InitErrors /\ [][NextErrors]_vars

\* create / delete operations between listings that fill the caches, on a
\* wrapper built with a key and with caching; the request succeeds, is
\* refused, or cannot connect
FrameOutcomes == {Http("response", 200, BodyProfile, TRUE),
                  Http("response", 404, BodyText, TRUE),
                  Http("ConnectionError", 0, "", TRUE)}
Mutation ==
  \E h \in FrameOutcomes :
     \/ create_profile("Test", h) \/ delete_profile("p1", h)
     \/ create_dns_record("p1", h) \/ delete_dns_record("r1", h)
     \/ assign_profile_to_network("n1", "p1", h) \/ remove_network_assignment("a1", h)
InitFrame == InitCache /\ enable_caching = TRUE /\ api_key = KeyPool[1]
NextFrame == ListOrganizations \/ ListNetworks \/ SelectOrganization \/ Mutation
SpecFrame == InitFrame /\ [][NextFrame]_vars

\* --------------------------------------------------- joined listings
\* what the vendor holds: profile ids, the ids of the networks it lists, and
\* assignments (profile, network) in the order it returns them
Vendor(ps, ns, as) == [profiles |-> ps, networks |-> ns, assignments |-> as]
Assignment(p, n) == [profile |-> p, network |-> n]
ProfileIds == {"p1", "p2"}
\* n2 is a network the organization's listing never shows
AssignableNets == {"n1", "n2"}
ProfileName(p) == IF p = "p1" THEN "Test1" ELSE "Test2"
NetworkName(n) == IF n = "n1" THEN "Net1" ELSE "Net2"
AssignmentId(n) == IF n = "n1" THEN "a1" ELSE "a2"
Unassigned == "[unassigned]"
Unknown == "[unknown]"

\* the items of GET profiles and GET profiles/assignments
ProfileItems(v) ==
  [i \in 1..Len(v.profiles) |-> [profileId |-> v.profiles[i], name |-> ProfileName(v.profiles[i])]]
AssignmentItems(v) ==
  [i \in 1..Len(v.assignments) |->
     [assignmentId |-> AssignmentId(v.assignments[i].network),
      network |-> v.assignments[i].network, profile |-> v.assignments[i].profile]]
\* the parsed 200 response {"items": [...]}
ItemsResponse(items) == RetJson(Json("dict", None, None, None, SomeList(items)), "{items}")
\* the response the vendor gives when it refuses the request
Refusal == Http("response", 404, BodyText, TRUE)

\* (NetworkMapGet_NoDefault: .get(id) without the default)
NetworkMapGet_NoDefault(rows, id) ==
  IF \E i \in 1..Len(rows) : rows[i].id = id THEN NetworkName(id) ELSE None
\* network_map.get(id, "[unknown]") on the rows of list_networks
NetworkMapGet(rows, id) ==
  IF \E i \in 1..Len(rows) : rows[i].id = id THEN NetworkName(id) ELSE Unknown
\* profile_map.get(id, "[unknown]") on the items of GET profiles
ProfileMapGet(items, id) ==
  IF \E i \in 1..Len(items) : items[i].profileId = id
  THEN (CHOOSE it \in {items[i] : i \in 1..Len(items)} : it.profileId = id).name
  ELSE Unknown

\* table_data of list_network_assignments
AssignmentRows(net_rows, profile_items, assignment_items) ==
  [i \in 1..Len(assignment_items) |->
     [assignment_id |-> assignment_items[i].assignmentId,
      network_id |-> assignment_items[i].network,
      network_name |-> NetworkMapGet(net_rows, assignment_items[i].network),
      profile_id |-> assignment_items[i].profile,
      profile_name |-> ProfileMapGet(profile_items, assignment_items[i].profile)]]

\* profile_to_network[id] of list_profiles: the last assignment row of the
\* profile wins (0: the profile has no entry)
LastAssignment(assignment_rows, id) ==
  LET idx == {i \in 1..Len(assignment_rows) : assignment_rows[i].profile_id = id}
  IN  IF idx = {} THEN 0 ELSE CHOOSE i \in idx : \A j \in idx : j <= i
\* (ProfileRows_Unjoined: every profile is shown without its assignment)
ProfileRows_Unjoined(profile_items, assignment_rows, net_rows) ==
  [i \in 1..Len(profile_items) |->
     [profile_id |-> profile_items[i].profileId, name |-> profile_items[i].name,
      network_id |-> Unassigned, network_name |-> Unassigned]]
\* table_data of list_profiles
ProfileRows(profile_items, assignment_rows, net_rows) ==
  [i \in 1..Len(profile_items) |->
     LET a == LastAssignment(assignment_rows, profile_items[i].profileId)
     IN  IF a # 0
         THEN [profile_id |-> profile_items[i].profileId, name |-> profile_items[i].name,
               network_id |-> assignment_rows[a].network_id,
               network_name |-> NetworkMapGet(net_rows, assignment_rows[a].network_id)]
         ELSE [profile_id |-> profile_items[i].profileId, name |-> profile_items[i].name,
               network_id |-> Unassigned, network_name |-> Unassigned]]

\* what a joined listing has done so far: the value it holds or returns, the
\* networks-cache slot of the selected organization, the last list_networks
\* fetch, SDK calls made, HTTP requests sent
Joined(ret, net, calls, sent) == [ret |-> ret, net |-> net, calls |-> calls, sent |-> sent]
\* what the SDK and the REST API answer: the vendor's data, or a failure
NetworksAnswer(failing) ==
  IF failing THEN Outcome("APIError", <<>>, ApiErrorStatus)
  ELSE Outcome("ok", vendor.networks, NoStatus)
ItemsAnswer(items, failing) ==
  IF failing THEN make_request(Refusal) ELSE ItemsResponse(items)

\* self._api_utils.list_networks(): the selected organization, use_cache=False
ListNetworksCall(slot, failing) ==
  IF ~Truthy(ResolvedOrganization(None))
  THEN Fetched(RetError("NoOrganizationSelected", "Please select an organization first."),
               slot, 0, dashboard)
  ELSE LET f == FetchFresh(slot, NetworksAnswer(failing))
       IN  Fetched(FormatListing(f.ret), f.slot, f.calls, f.dash)

\* (NetworkAssignments_Partial: a failed assignments fetch gives an empty list)
NetworkAssignments_Partial(slot, fail) ==
  LET n == ListNetworksCall(slot, fail = 1)
      ps == ItemsAnswer(ProfileItems(vendor), fail = 2)
      as == ItemsAnswer(AssignmentItems(vendor), fail = 3)
  IN  IF IsErrorRecord(n.ret) THEN Joined(n.ret, n, n.calls, 0)
      ELSE IF IsErrorRecord(ps) THEN Joined(ps, n, n.calls, 1)
      ELSE IF IsErrorRecord(as) THEN Joined(RetList(<<>>), n, n.calls, 2)
      ELSE Joined(RetList(AssignmentRows(n.ret.data, ps.data[1].items.val,
                                         as.data[1].items.val)),
                  n, n.calls, 2)
\* list_network_assignments from a networks-cache slot; fail is the fetch
\* that fails: 1 list_networks, 2 GET profiles, 3 GET profiles/assignments
NetworkAssignments(slot, fail) ==
  LET n == ListNetworksCall(slot, fail = 1)
      ps == ItemsAnswer(ProfileItems(vendor), fail = 2)
      as == ItemsAnswer(AssignmentItems(vendor), fail = 3)
  IN  IF IsErrorRecord(n.ret) THEN Joined(n.ret, n, n.calls, 0)
      ELSE IF IsErrorRecord(ps) THEN Joined(ps, n, n.calls, 1)
      ELSE IF IsErrorRecord(as) THEN Joined(as, n, n.calls, 2)
      ELSE Joined(RetList(AssignmentRows(n.ret.data, ps.data[1].items.val,
                                         as.data[1].items.val)),
                  n, n.calls, 2)

\* list_profiles; fail is the fetch that fails: 1 GET profiles, 2..4 those of
\* list_network_assignments, 5 the second list_networks
Profiles(slot, fail) ==
  LET ps == ItemsAnswer(ProfileItems(vendor), fail = 1)
      a == NetworkAssignments(slot, IF fail \in 2..4 THEN fail - 1 ELSE 0)
      n == ListNetworksCall(a.net.slot, fail = 5)
  IN  IF IsErrorRecord(ps) THEN Joined(ps, Fetched(RetVoid, slot, 0, dashboard), 0, 1)
      ELSE IF IsErrorRecord(a.ret) THEN Joined(a.ret, a.net, a.calls, 1 + a.sent)
      ELSE IF IsErrorRecord(n.ret) THEN Joined(n.ret, n, a.calls + n.calls, 1 + a.sent)
      ELSE Joined(RetList(ProfileRows(ps.data[1].items.val, a.ret.data, n.ret.data)),
                  n, a.calls + n.calls, 1 + a.sent)

\* the networks-cache slot of the selected organization
SelectedSlot == IF Truthy(organization_id) THEN networks_cache.map[organization_id] ELSE NoList

\* what a joined listing leaves on the wrapper
JoinFrame(j) ==
  /\ lastRet' = j.ret
  /\ vendorCalls' = j.calls /\ httpSent' = j.sent
  /\ dashboard' = j.net.dash
  /\ IF Truthy(organization_id) /\ j.net.ret # RetVoid
     THEN /\ networks_cache' = [none |-> FALSE,
                                map |-> [networks_cache.map EXCEPT
                                           ![organization_id] = j.net.slot]]
          /\ failedSlots' = FailedAfter(j.net, organization_id)
     ELSE UNCHANGED <<networks_cache, failedSlots>>
  /\ preSet' = CurrentlySet
  /\ UNCHANGED <<logVars, env_api_key, vendor, api_key, organization_id, organization_name, network_id,
                 network_name, enable_caching, organizations_cache, required_app_setup_param>>

list_network_assignments(fail) ==
  /\ lastOp' = Op("list_network_assignments", EmptyFlags, FALSE, None, fail)
  /\ \E j \in {NetworkAssignments(SelectedSlot, fail)} : JoinFrame(j)

list_profiles(fail) ==
  /\ lastOp' = Op("list_profiles", EmptyFlags, FALSE, None, fail)
  /\ \E j \in {Profiles(SelectedSlot, fail)} : JoinFrame(j)

\* ---------------------------- the vendor's data changing between listings
\* s without its i-th element
RemoveAt(s, i) == [j \in 1..(Len(s) - 1) |-> IF j < i THEN s[j] ELSE s[j + 1]]

VendorStep(name, arg, v) ==
  /\ vendor' = v
  /\ lastOp' = Op(name, EmptyFlags, FALSE, arg, NoOutcome)
  /\ lastRet' = RetVoid
  /\ preSet' = CurrentlySet
  /\ vendorCalls' = 0 /\ httpSent' = 0
  /\ UNCHANGED <<logVars, env_api_key, scopeVars, enable_caching, cacheVars, required_app_setup_param>>

\* a profile is created at the vendor, or deleted there
VendorCreatesProfile ==
  \E p \in ProfileIds :
     /\ \A i \in 1..Len(vendor.profiles) : vendor.profiles[i] # p
     /\ VendorStep("vendor", None, [vendor EXCEPT !.profiles = Append(@, p)])
VendorDeletesProfile ==
  \E i \in 1..Len(vendor.profiles) :
     VendorStep("vendor", None, [vendor EXCEPT !.profiles = RemoveAt(@, i)])
\* the network n1 appears in the organization's listing, or leaves it
VendorChangesNetworks ==
  \E ns \in NetListings :
     /\ ns # vendor.networks
     /\ VendorStep("vendor", None, [vendor EXCEPT !.networks = ns])
\* a network without a profile gets one; an assignment is removed
VendorAssigns ==
  \E p \in ProfileIds, n \in AssignableNets :
     /\ \A i \in 1..Len(vendor.assignments) : vendor.assignments[i].network # n
     /\ VendorStep("vendor", None,
                   [vendor EXCEPT !.assignments = Append(@, Assignment(p, n))])
VendorRemovesAssignment ==
  \E i \in 1..Len(vendor.assignments) :
     VendorStep("vendor_removes_assignment", vendor.assignments[i].profile,
                [vendor EXCEPT !.assignments = RemoveAt(@, i)])

ListNetworkAssignments == \E fail \in 0..3 : list_network_assignments(fail)
ListProfiles == \E fail \in 0..5 : list_profiles(fail)

\* a ProjectLogic on a wrapper built with a key, with or without caching
InitJoin == InitCache /\ api_key = KeyPool[1]
NextJoin ==
  \/ SelectOrganization
  \/ ListNetworkAssignments \/ ListProfiles
  \/ VendorCreatesProfile \/ VendorDeletesProfile \/ VendorChangesNetworks
  \/ VendorAssigns \/ VendorRemovesAssignment
SpecJoin == InitJoin /\ [][NextJoin]_vars

\* ------------------------- a vendor that applies each call it accepts
\* POST profiles accepted: the response carries the new profile
Created == Http("response", 201, "{profile}", TRUE)
ProfileResponse(p) == RetJson(Json("dict", p, ProfileName(p), None, NoList), "{profile}")
\* DELETE profiles/{id} accepted: no content
Deleted == Http("response", 204, "", TRUE)
\* what a request the vendor has applied leaves on the wrapper
AppliedFrame(v) ==
  /\ vendor' = v
  /\ preSet' = CurrentlySet
  /\ vendorCalls' = 0 /\ httpSent' = 1
  /\ UNCHANGED <<logVars, env_api_key, scopeVars, enable_caching, cacheVars, required_app_setup_param>>

\* (create_profile_applied_OtherKey: the id is read from a key the response
\* does not have)
create_profile_applied_OtherKey(p) ==
  /\ lastOp' = Op("create_profile", EmptyFlags, FALSE, ProfileName(p), Created)
  /\ \E r \in {ProfileResponse(p)} :
       lastRet' = IF IsErrorRecord(r) THEN r
                  ELSE IF r.kind # "dict" THEN RetRaise("AttributeError")
                  ELSE Ret("dict", FALSE, "", "", NoStatus, <<None, r.data[1].name>>)
  /\ AppliedFrame([vendor EXCEPT !.profiles = Append(@, p)])
\* create_profile(name) accepted by the vendor, which gives the profile the id p
create_profile_applied(p) ==
  /\ lastOp' = Op("create_profile", EmptyFlags, FALSE, ProfileName(p), Created)
  /\ \E r \in {ProfileResponse(p)} :
       lastRet' = IF IsErrorRecord(r) THEN r
                  ELSE IF r.kind # "dict" THEN RetRaise("AttributeError")
                  ELSE Ret("dict", FALSE, "", "", NoStatus,
                           <<r.data[1].profileId, r.data[1].name>>)
  /\ AppliedFrame([vendor EXCEPT !.profiles = Append(@, p)])
\* delete_profile(id) accepted by the vendor, which drops the profile
delete_profile_applied(i) ==
  /\ lastOp' = Op("delete_profile", EmptyFlags, FALSE, vendor.profiles[i], Deleted)
  /\ lastRet' = make_request(Deleted)
  /\ AppliedFrame([vendor EXCEPT !.profiles = RemoveAt(@, i)])

\* the vendor gives a new profile an id it does not use anywhere
FreshProfileIds ==
  {p \in ProfileIds :
     /\ \A i \in 1..Len(vendor.profiles) : vendor.profiles[i] # p
     /\ \A i \in 1..Len(vendor.assignments) : vendor.assignments[i].profile # p}
CreateProfileApplied == \E p \in FreshProfileIds : create_profile_applied(p)
DeleteProfileApplied == \E i \in 1..Len(vendor.profiles) : delete_profile_applied(i)
\* the vendor refuses: nothing is applied
CreateProfileRefused == \E p \in ProfileIds : create_profile(ProfileName(p), Refusal)
DeleteProfileRefused ==
  \E p \in ProfileIds :
     /\ \A i \in 1..Len(vendor.profiles) : vendor.profiles[i] # p
     /\ delete_profile(p, Refusal)

InitLife == InitJoin
NextLife ==
  \/ SelectOrganization \/ ListProfiles
  \/ CreateProfileApplied \/ DeleteProfileApplied
  \/ CreateProfileRefused \/ DeleteProfileRefused
  \/ VendorChangesNetworks \/ VendorAssigns \/ VendorRemovesAssignment
SpecLife == InitLife /\ [][NextLife]_vars

\* ------------------------------------------------- log buffer and pollers
\* entries the buffer model keeps; an append beyond it is not recorded
MaxLog == 3
\* polls in which put_markdown raises, per poller
MaxRaises == 1
\* the CSV export thread, as a holder of the lock
Export == "export"
\* ListHandler.emit: log_entries.append(log_entry); entry n is the n-th one
Appended(log) == IF Len(log) < MaxLog THEN Append(log, Len(log) + 1) ELSE log

\* a logger call on any other thread: emit appends, taking no lock
Emit ==
  /\ Len(log_entries) < MaxLog
  /\ log_entries' = Appended(log_entries)
  /\ UNCHANGED <<last_displayed_log_index, log_entries_lock, pollers, display, wrapperVars>>

\* app(): t.start(); update_log_display logs that it starts
StartPoller(s) ==
  /\ pollers[s].pc = "off"
  /\ pollers' = [pollers EXCEPT ![s].pc = "acquire",
                                ![s].started = Len(Appended(log_entries))]
  /\ log_entries' = Appended(log_entries)
  /\ UNCHANGED <<last_displayed_log_index, log_entries_lock, display, wrapperVars>>
\* with log_entries_lock:
AcquireLock(s) ==
  /\ pollers[s].pc = "acquire"
  /\ log_entries_lock = None
  /\ log_entries_lock' = s
  /\ pollers' = [pollers EXCEPT ![s].pc = "count"]
  /\ UNCHANGED <<log_entries, last_displayed_log_index, display, wrapperVars>>
\* current_log_count = len(log_entries), and the lock is released
ReadCount(s) ==
  /\ pollers[s].pc = "count"
  /\ pollers' = [pollers EXCEPT ![s].pc = "test",
                                ![s].current_log_count = Len(log_entries)]
  /\ log_entries_lock' = None
  /\ UNCHANGED <<log_entries, last_displayed_log_index, display, wrapperVars>>
\* if current_log_count > last_displayed_log_index: ... else sleep
TestCount(s) ==
  /\ pollers[s].pc = "test"
  /\ pollers' = [pollers EXCEPT
                   ![s].pc = IF pollers[s].current_log_count > last_displayed_log_index
                             THEN "range" ELSE "acquire"]
  /\ UNCHANGED <<log_entries, last_displayed_log_index, log_entries_lock, display, wrapperVars>>
\* for i in range(last_displayed_log_index, current_log_count):
EnterLoop(s) ==
  /\ pollers[s].pc = "range"
  /\ pollers' = [pollers EXCEPT ![s].pc = "read", ![s].i = last_displayed_log_index]
  /\ UNCHANGED <<log_entries, last_displayed_log_index, log_entries_lock, display, wrapperVars>>
\* entry = log_entries[i]
ReadEntry(s) ==
  /\ pollers[s].pc = "read"
  /\ pollers[s].i < pollers[s].current_log_count
  /\ pollers' = [pollers EXCEPT ![s].pc = "put", ![s].entry = log_entries[pollers[s].i + 1]]
  /\ UNCHANGED <<log_entries, last_displayed_log_index, log_entries_lock, display, wrapperVars>>
\* put_markdown(entry) shows the entry
PutMarkdown(s) ==
  /\ pollers[s].pc = "put"
  /\ display' = [display EXCEPT ![s] = Append(@, pollers[s].entry)]
  /\ pollers' = [pollers EXCEPT ![s].pc = "read", ![s].i = @ + 1]
  /\ UNCHANGED <<log_entries, last_displayed_log_index, log_entries_lock, wrapperVars>>
\* put_markdown(entry) raises: the except clause logs it, then sleep
PutMarkdownRaises(s) ==
  /\ pollers[s].pc = "put"
  /\ pollers[s].raised < MaxRaises
  /\ pollers' = [pollers EXCEPT ![s].pc = "acquire", ![s].raised = @ + 1]
  /\ log_entries' = Appended(log_entries)
  /\ UNCHANGED <<last_displayed_log_index, log_entries_lock, display, wrapperVars>>
\* the loop is over: last_displayed_log_index = current_log_count, run_js, sleep
AdvanceIndex(s) ==
  /\ pollers[s].pc = "read"
  /\ pollers[s].i >= pollers[s].current_log_count
  /\ last_displayed_log_index' = pollers[s].current_log_count
  /\ pollers' = [pollers EXCEPT ![s].pc = "acquire"]
  /\ UNCHANGED <<log_entries, log_entries_lock, display, wrapperVars>>

\* download_logs_as_csv: logs, then takes the lock
DownloadAcquire ==
  /\ log_entries_lock = None
  /\ log_entries_lock' = Export
  /\ log_entries' = Appended(log_entries)
  /\ UNCHANGED <<last_displayed_log_index, pollers, display, wrapperVars>>
\* for entry in log_entries: writer.writerow([entry]); the lock is released,
\* download() is called with the rows and logged
DownloadRows ==
  /\ log_entries_lock = Export
  /\ log_entries_lock' = None
  /\ lastRet' = RetList(log_entries)
  /\ log_entries' = Appended(log_entries)
  /\ UNCHANGED <<last_displayed_log_index, pollers, display, env_api_key, vendor, scopeVars,
                 enable_caching, cacheVars, required_app_setup_param, preSet, lastOp,
                 vendorCalls, httpSent>>

PollerStep(s) ==
  \/ StartPoller(s) \/ AcquireLock(s) \/ ReadCount(s) \/ TestCount(s) \/ EnterLoop(s)
  \/ ReadEntry(s) \/ PutMarkdown(s) \/ AdvanceIndex(s)
InitLog == InitCache /\ api_key = None /\ enable_caching = FALSE
\* one session, whose display can fail
NextPoll ==
  \/ Emit \/ DownloadAcquire \/ DownloadRows
  \/ PollerStep("s1") \/ PutMarkdownRaises("s1")
SpecPoll == InitLog /\ [][NextPoll]_vars
\* two sessions in the process, whose displays work
NextSessions == Emit \/ (\E s \in Sessions : PollerStep(s))
SpecSessions == InitLog /\ [][NextSessions]_vars

\* ==================================================== claims on the caches
IsListing(op) == op.name \in {"list_organizations", "list_networks"}
\* the cache slot a listing call is for, and what the slot holds
SlotOf(op) == IF op.name = "list_organizations" THEN OrgsSlot
              ELSE ResolvedOrganization(op.arg)
SlotContent(slot) == IF slot = OrgsSlot THEN organizations_cache
                     ELSE networks_cache.map[slot]
SlotContentAfter(slot) == IF slot = OrgsSlot THEN organizations_cache'
                          ELSE networks_cache'.map[slot]
\* the call had an organization to work on
Resolvable(op) == op.name = "list_organizations" \/ Truthy(ResolvedOrganization(op.arg))
\* what a listing returns for a vendor answer, the cache left aside
AnswerOf(out) ==
  IF out.kind = "ok" THEN RetList(FormatRows(out.data))
  ELSE IF out.kind = "APIError" THEN RetErrorStatus("MerakiAPIError", "e.message", out.status)
  ELSE RetError("UnexpectedError", "str(e)")

\* C7: with caching enabled, two list_organizations(use_cache=True) calls in
\* a row return the same result, whatever the vendor answered to the first.
C7_IdempotentRead ==
  [][(/\ enable_caching
      /\ lastOp.name = "list_organizations" /\ lastOp.use_cache
      /\ lastOp'.name = "list_organizations" /\ lastOp'.use_cache)
     => lastRet' = lastRet]_vars

C9_Step(covered) ==
  IsListing(lastOp') =>
     /\ (vendorCalls' = 1 /\ lastOp'.vendor.kind # "ok") =>
           IF enable_caching
           THEN SlotContentAfter(SlotOf(lastOp')) = SomeList(<<>>)
           ELSE organizations_cache' = organizations_cache
                /\ networks_cache'.map = networks_cache.map
     /\ (lastOp'.use_cache /\ Resolvable(lastOp') /\ SlotOf(lastOp') \in failedSlots
           /\ covered) =>
           lastRet' = RetList(<<>>) /\ vendorCalls' = 0

\* C9 as stated: with caching enabled a failed fetch stores the empty list
\* in its slot and every later use_cache=True call for the slot returns the
\* empty list without a vendor call; with caching disabled a failed fetch
\* stores nothing.
C9_NegativeCacheForever == [][C9_Step(TRUE)]_vars

\* C9 amended: ... every later use_cache=True call for the slot made while
\* caching is still enabled and the slot still holds the empty list (no
\* use_cache=False call has refilled it) returns the empty list without a
\* vendor call ...
C9_NegativeCacheWhileHeld ==
  [][C9_Step(enable_caching /\ SlotContent(SlotOf(lastOp')) = SomeList(<<>>))]_vars

\* a use_cache=True network listing has been served the empty list stored by
\* an earlier failed fetch, without a vendor call
C9_Witness ==
  /\ lastOp.name = "list_networks" /\ lastOp.use_cache
  /\ enable_caching /\ Resolvable(lastOp)
  /\ SlotOf(lastOp) \in failedSlots
  /\ SlotContent(SlotOf(lastOp)) = SomeList(<<>>)
  /\ lastOp.vendor.kind = "ok" /\ lastOp.vendor.data # <<>>
  /\ vendorCalls = 0 /\ lastRet = RetList(<<>>)

\* ========================================= claims on the REST operations
IsDomainOp(op) ==
  op.name \in {"create_profile", "delete_profile", "create_dns_record", "list_dns_records",
               "delete_dns_record", "assign_profile_to_network",
               "remove_network_assignment"}

\* C4: for a non-2xx response with status code c and body b the request
\* function (and delete_profile, which returns its result) returns
\* {error: HTTPError, status_code: c, details: b} and does not raise.
C4_HttpErrorRecord ==
  (/\ IsDomainOp(lastOp)
   /\ lastOp.vendor.kind = "response"
   /\ ~(lastOp.vendor.status >= 200 /\ lastOp.vendor.status < 300))
  => lastRet = RetErrorStatus("HTTPError", lastOp.vendor.body, lastOp.vendor.status)

\* C5: no domain operation raises, whatever the request returns; every call
\* returns a value.
C5_NeverRaises == IsDomainOp(lastOp) => lastRet.kind # "raise"

\* C6: a request made while no organization id is set returns the
\* NoOrganizationSelected error and sends no HTTP request.
C6_NoOrganizationFailsFast ==
  (IsDomainOp(lastOp) /\ ~is_organization_id_set(organization_id)) =>
     lastRet.error = "NoOrganizationSelected" /\ httpSent = 0

\* the request failed: no response, a 4xx/5xx status, or a body that is not JSON
RequestFailed(http) ==
  \/ http.kind # "response"
  \/ http.status >= 400
  \/ Strip(http.body) # "" /\ ParseJson(http.body).type = "invalid"
IsCreateOrDeleteOp(op) == IsDomainOp(op) /\ op.name # "list_dns_records"

C14_TransportErrorKinds ==
  (IsDomainOp(lastOp) /\ lastOp.vendor.kind # "response") =>
     /\ lastOp.vendor.kind \in {"ConnectTimeout", "ReadTimeout"} =>
           lastRet.kind = "error" /\ lastRet.error = "TimeoutError"
     /\ lastOp.vendor.kind = "ConnectionError" =>
           lastRet.kind = "error" /\ lastRet.error = "ConnectionError"
     /\ lastOp.vendor.kind = "TooManyRedirects" =>
           lastRet.kind = "error" /\ lastRet.error = "RequestException"

\* C16: every create or delete operation sends exactly one HTTP request,
\* whatever the outcome, and a failed call returns the error of that one
\* attempt.
C16_SingleAttempt ==
  IsCreateOrDeleteOp(lastOp) =>
     /\ httpSent = 1
     /\ RequestFailed(lastOp.vendor) =>
           /\ lastRet.kind = "error"
           /\ lastOp.vendor.kind = "ConnectionError" => lastRet.error = "ConnectionError"
           /\ lastOp.vendor.kind = "response" /\ lastOp.vendor.status >= 400 =>
                 lastRet.error = "HTTPError"

\* assign_profile_to_network has failed on a connection error after one request
C16_Witness ==
  /\ lastOp.name = "assign_profile_to_network"
  /\ lastOp.vendor.kind = "ConnectionError"
  /\ httpSent = 1
  /\ lastRet.error = "ConnectionError"

\* the error kinds of the spec's taxonomy
Taxonomy == {"NoOrganizationSelected", "HTTPError", "ConnectionError", "TimeoutError",
             "RequestException", "UnexpectedError", "DashboardAPIError"}

C17_ResolvesOrganization ==
  lastOp.name = "list_networks" =>
     IF Truthy(lastOp.arg) \/ Truthy(organization_id)
     THEN lastRet.error # "NoOrganizationSelected"
     ELSE /\ lastRet = RetError("NoOrganizationSelected", "Please select an organization first.")
          /\ vendorCalls = 0

\* C18: every create and delete domain operation leaves the organizations
\* cache, the networks cache and the scope fields as they were, whether it
\* succeeds or fails.
C18_MutationsKeepWrapper ==
  [][IsCreateOrDeleteOp(lastOp') =>
       UNCHANGED <<scopeVars, organizations_cache, networks_cache>>]_vars

\* create_profile has succeeded on a wrapper with an organization selected
\* and a filled networks cache, which is still filled
C18_Witness ==
  /\ lastOp.name = "create_profile" /\ lastRet.kind = "dict"
  /\ is_organization_id_set(organization_id)
  /\ networks_cache.map[organization_id] = SomeList(<<"n1">>)

\* ------------------------------------------- claims on the joined listings
Listed(n) == \E i \in 1..Len(vendor.networks) : vendor.networks[i] = n
HasProfile(q) == \E i \in 1..Len(vendor.profiles) : vendor.profiles[i] = q
AssignmentsOf(q) == {i \in 1..Len(vendor.assignments) : vendor.assignments[i].profile = q}
LastOf(idx) == CHOOSE i \in idx : \A j \in idx : j <= i
ReturnedProfiles == lastOp.name = "list_profiles" /\ lastRet.kind = "list"
ReturnedAssignments == lastOp.name = "list_network_assignments" /\ lastRet.kind = "list"
\* one record per vendor profile, in the vendor's order
OneRowPerProfile ==
  /\ Len(lastRet.data) = Len(vendor.profiles)
  /\ \A i \in 1..Len(vendor.profiles) :
        /\ lastRet.data[i].profile_id = vendor.profiles[i]
        /\ lastRet.data[i].name = ProfileName(vendor.profiles[i])
        /\ AssignmentsOf(vendor.profiles[i]) = {} =>
              /\ lastRet.data[i].network_id = Unassigned
              /\ lastRet.data[i].network_name = Unassigned

\* C19 as stated: list_profiles returns one record per vendor profile; a
\* profile with an assignment to a listed network carries that network's id
\* and name, a profile without assignment [unassigned]; once an assignment is
\* removed at the vendor the next list_profiles shows its profile as
\* [unassigned].
C19_ProfilesJoin ==
  /\ [](ReturnedProfiles =>
          /\ OneRowPerProfile
          /\ \A i \in 1..Len(vendor.profiles) :
                \A a \in AssignmentsOf(vendor.profiles[i]) :
                   Listed(vendor.assignments[a].network) =>
                      /\ lastRet.data[i].network_id = vendor.assignments[a].network
                      /\ lastRet.data[i].network_name =
                            NetworkName(vendor.assignments[a].network))
  /\ [][(lastOp.name = "vendor_removes_assignment" /\ ReturnedProfiles')
        => \A i \in 1..Len(lastRet'.data) :
              lastRet'.data[i].profile_id = lastOp.arg =>
                 lastRet'.data[i].network_name = Unassigned]_vars

\* C19 amended: when all its fetches succeed list_profiles returns one
\* record per vendor profile; a profile with assignments carries the network
\* id of the last of them in the vendor's assignment list, with that
\* network's name if the network is listed; a profile without assignment
\* carries [unassigned]; once an assignment is removed at the vendor the next
\* list_profiles shows its profile as [unassigned] if no other assignment of
\* the profile is left.
C19_ProfilesJoinLastAssignment ==
  /\ [](ReturnedProfiles =>
          /\ OneRowPerProfile
          /\ \A i \in 1..Len(vendor.profiles) :
                AssignmentsOf(vendor.profiles[i]) # {} =>
                   LET a == vendor.assignments[LastOf(AssignmentsOf(vendor.profiles[i]))]
                   IN  /\ lastRet.data[i].network_id = a.network
                       /\ Listed(a.network) =>
                             lastRet.data[i].network_name = NetworkName(a.network))
  /\ []((lastOp.name = "list_profiles" /\ lastOp.vendor = 0
            /\ is_organization_id_set(organization_id)) => lastRet.kind = "list")
  /\ [][(lastOp.name = "vendor_removes_assignment" /\ ReturnedProfiles'
           /\ AssignmentsOf(lastOp.arg) = {})
        => \A i \in 1..Len(lastRet'.data) :
              lastRet'.data[i].profile_id = lastOp.arg =>
                 lastRet'.data[i].network_name = Unassigned]_vars

\* list_profiles has shown p1, assigned to the unlisted n2 and then to the
\* listed n1, with Net1, and p2 as unassigned
C19_Witness ==
  /\ ReturnedProfiles
  /\ vendor.profiles = <<"p1", "p2">>
  /\ vendor.assignments = <<Assignment("p1", "n2"), Assignment("p1", "n1")>>
  /\ lastRet.data[1].network_id = "n1" /\ lastRet.data[1].network_name = "Net1"
  /\ lastRet.data[2].network_name = Unassigned

\* the assignment rows name what they can and mark the rest unknown
AssignmentRowsResolve ==
  /\ Len(lastRet.data) = Len(vendor.assignments)
  /\ \A i \in 1..Len(vendor.assignments) :
        /\ lastRet.data[i].network_id = vendor.assignments[i].network
        /\ lastRet.data[i].profile_id = vendor.assignments[i].profile
        /\ ~Listed(vendor.assignments[i].network) => lastRet.data[i].network_name = Unknown
        /\ ~HasProfile(vendor.assignments[i].profile) => lastRet.data[i].profile_name = Unknown

\* C20 as stated: list_network_assignments returns a record for every
\* assignment, with network name [unknown] when its network is not listed
\* and profile name [unknown] when its profile is not listed; list_profiles
\* shows network name [unknown] for a profile assigned to an unlisted
\* network; neither raises.
C20_UnknownReferences ==
  /\ lastOp.name \in {"list_network_assignments", "list_profiles"} => lastRet.kind # "raise"
  /\ ReturnedAssignments => AssignmentRowsResolve
  /\ ReturnedProfiles =>
        \A i \in 1..Len(vendor.profiles) :
           \A a \in AssignmentsOf(vendor.profiles[i]) :
              ~Listed(vendor.assignments[a].network) =>
                 lastRet.data[i].network_name = Unknown

\* C20 amended: ... list_profiles shows network name [unknown] for a profile
\* whose last assignment in the vendor's list is to an unlisted network ...
C20_UnknownReferencesLastAssignment ==
  /\ lastOp.name \in {"list_network_assignments", "list_profiles"} => lastRet.kind # "raise"
  /\ ReturnedAssignments => AssignmentRowsResolve
  /\ ReturnedProfiles =>
        \A i \in 1..Len(vendor.profiles) :
           AssignmentsOf(vendor.profiles[i]) # {} =>
              LET a == vendor.assignments[LastOf(AssignmentsOf(vendor.profiles[i]))]
              IN  ~Listed(a.network) => lastRet.data[i].network_name = Unknown

\* list_network_assignments has returned a row whose network and profile
\* are both unknown
C20_Witness ==
  /\ ReturnedAssignments
  /\ Len(lastRet.data) >= 1
  /\ lastRet.data[1].network_name = Unknown /\ lastRet.data[1].profile_name = Unknown
  /\ lastRet.data[1].network_id = "n2"

\* the fetches of a joined listing in their order: REST requests and
\* list_networks calls
FetchesOf(op) ==
  IF op.name = "list_profiles" THEN <<"rest", "networks", "rest", "rest", "networks">>
  ELSE <<"networks", "rest", "rest">>
\* the error record fetch i of the last call came back with, if it did
FetchError(i) ==
  IF FetchesOf(lastOp)[i] = "networks" /\ ~is_organization_id_set(organization_id)
  THEN RetError("NoOrganizationSelected", "Please select an organization first.")
  ELSE IF lastOp.vendor # i THEN RetVoid
  ELSE IF FetchesOf(lastOp)[i] = "networks"
  THEN RetErrorStatus("MerakiAPIError", "e.message", ApiErrorStatus)
  ELSE RetErrorStatus("HTTPError", "No response text", StatusUnknown)
IsJoinedListing(op) == op.name \in {"list_profiles", "list_network_assignments"}

\* C22: when a fetch inside list_profiles or list_network_assignments comes
\* back with a structured error, the operation returns that error record
\* unchanged, and no list; it returns a list when no fetch fails.
C22_FetchErrorPassedUp ==
  IsJoinedListing(lastOp) =>
     LET failed == {i \in 1..Len(FetchesOf(lastOp)) : FetchError(i) # RetVoid}
     IN  IF failed = {} THEN lastRet.kind = "list"
         ELSE lastRet = FetchError(CHOOSE i \in failed : \A j \in failed : i <= j)

\* list_profiles has returned the error of the assignments fetch made inside
\* list_network_assignments, after three requests
C22_Witness ==
  /\ lastOp.name = "list_profiles" /\ lastOp.vendor = 4
  /\ Len(vendor.profiles) > 0
  /\ lastRet.kind = "error" /\ lastRet.error = "HTTPError"
  /\ httpSent = 3 /\ vendorCalls = 1

\* ================================================== claims on scope state
IsSetup(op) == op.name = "setup_application_parameters"

\* C1: in every reachable state a set organization id implies a set
\* credential, and a set network id implies a set organization id.
C1_ScopeOrder ==
  /\ is_organization_id_set(organization_id) => is_api_key_set(api_key)
  /\ is_network_id_set(network_id) => is_organization_id_set(organization_id)

\* C2: a setup_application_parameters call whose flags require organization
\* without credential, or network without credential or organization,
\* returns false, whatever was supplied and whatever the instance held.
C2_BadOrderReturnsFalse ==
  (/\ IsSetup(lastOp)
   /\ \/ lastOp.req.organization_id /\ ~lastOp.req.api_key
      \/ lastOp.req.network_id /\ ~(lastOp.req.api_key /\ lastOp.req.organization_id))
  => lastRet = RetBool(FALSE)

\* a call requiring network and credential but not organization, made on an
\* instance that had all three fields set, has returned false
C2_Witness ==
  /\ IsSetup(lastOp)
  /\ lastOp.req = Flags(FALSE, TRUE, FALSE, TRUE)
  /\ preSet = [api_key |-> TRUE, organization_id |-> TRUE, network_id |-> TRUE]
  /\ lastRet = RetBool(FALSE)

\* C3 as stated: no call takes any of the three fields from Set to Unset.
C3_NeverUnset ==
  /\ preSet.api_key => is_api_key_set(api_key)
  /\ preSet.organization_id => is_organization_id_set(organization_id)
  /\ preSet.network_id => is_network_id_set(network_id)

\* C3 amended: organization and network never go from Set to Unset; the
\* credential goes from Set to Unset only in a set_api_key call, or a
\* setup_application_parameters call that requires the credential and
\* returns false, made while the environment variable holds no key, and
\* then the stored key is None and the client is dropped.
C3_UnsetOnlyCredential ==
  /\ preSet.organization_id => is_organization_id_set(organization_id)
  /\ preSet.network_id => is_network_id_set(network_id)
  /\ (preSet.api_key /\ ~is_api_key_set(api_key)) =>
        /\ ~Truthy(env_api_key)
        /\ api_key = None /\ dashboard = None
        /\ \/ lastOp.name = "set_api_key" /\ ~Truthy(lastOp.arg)
           \/ IsSetup(lastOp) /\ lastOp.req.api_key /\ lastRet = RetBool(FALSE)

\* set_api_key without a key has cleared a credential that was set, while
\* organization and network stayed set
C3_Witness ==
  /\ lastOp.name = "set_api_key"
  /\ preSet = [api_key |-> TRUE, organization_id |-> TRUE, network_id |-> TRUE]
  /\ ~is_api_key_set(api_key)
  /\ is_organization_id_set(organization_id) /\ is_network_id_set(network_id)

\* what a failed call has written by the step it reached: the supplied (or
\* environment) key, and the supplied organization id once the key is set
SetupWritesKept ==
  /\ (lastOp.req.api_key /\ Truthy(lastOp.arg.api_key)) => api_key = lastOp.arg.api_key
  /\ (lastOp.req.api_key /\ ~Truthy(lastOp.arg.api_key) /\ Truthy(env_api_key)) =>
        api_key = env_api_key
  /\ (lastOp.req.organization_id /\ is_api_key_set(api_key)
        /\ Truthy(lastOp.arg.organization_id)) =>
        organization_id = lastOp.arg.organization_id

\* C10 as stated: when setup_application_parameters returns false no field
\* that was set before the call is unset, and every field the call wrote
\* before the failing step keeps the value written.
C10_FailedSetupKeepsFields ==
  (IsSetup(lastOp) /\ lastRet = RetBool(FALSE)) =>
     /\ preSet.api_key => is_api_key_set(api_key)
     /\ preSet.organization_id => is_organization_id_set(organization_id)
     /\ preSet.network_id => is_network_id_set(network_id)
     /\ check_required_parameter_order(lastOp.req) => SetupWritesKept

\* C10 amended: when setup_application_parameters returns false, an
\* organization or network that was set before the call is still set, every
\* field the call wrote before the failing step keeps the value written,
\* and a credential that was set is unset only when the call failed at the
\* credential step (credential required, no key supplied, none in the
\* environment).
C10_FailedSetupKeepsScope ==
  (IsSetup(lastOp) /\ lastRet = RetBool(FALSE)) =>
     /\ preSet.organization_id => is_organization_id_set(organization_id)
     /\ preSet.network_id => is_network_id_set(network_id)
     /\ check_required_parameter_order(lastOp.req) => SetupWritesKept
     /\ (preSet.api_key /\ ~is_api_key_set(api_key)) =>
           /\ lastOp.req.api_key
           /\ ~Truthy(lastOp.arg.api_key) /\ ~Truthy(env_api_key)

\* a call requiring all three fields has failed at the network step on an
\* instance that had nothing set: credential and organization stay written
C10_Witness ==
  /\ IsSetup(lastOp) /\ lastRet = RetBool(FALSE)
  /\ lastOp.req = Flags(FALSE, TRUE, TRUE, TRUE)
  /\ preSet = [api_key |-> FALSE, organization_id |-> FALSE, network_id |-> FALSE]
  /\ is_api_key_set(api_key) /\ is_organization_id_set(organization_id)
  /\ ~is_network_id_set(network_id)

\* every field the call's flags require is set
RequiredSet(req) ==
  /\ req.api_key => is_api_key_set(api_key)
  /\ req.organization_id => is_organization_id_set(organization_id)
  /\ req.network_id => is_network_id_set(network_id)

C12_StatusAfterSetup ==
  [][(IsSetup(lastOp) /\ lastRet = RetBool(TRUE)
        /\ lastOp'.name = "check_current_parameters_status")
     => lastRet' = RetStatus(TRUE, <<>>)]_vars

\* C24: after any sequence of set_api_key calls the API client exists
\* exactly when the credential is set, it was built from the current
\* credential, and get_headers gives Bearer followed by the credential.
C24_ClientFollowsCredential ==
  /\ dashboard # None <=> is_api_key_set(api_key)
  /\ is_api_key_set(api_key) =>
        /\ dashboard = api_key
        /\ get_headers.Authorization = <<"Bearer ", api_key>>

\* set_api_key without argument has replaced a credential by the
\* environment's key, and the client was rebuilt from it
C24_Witness ==
  /\ lastOp.name = "set_api_key" /\ lastOp.arg = None
  /\ preSet.api_key
  /\ api_key = EnvKey /\ dashboard = EnvKey
  /\ get_headers.Authorization = <<"Bearer ", EnvKey>>

\* C27: after any sequence of set_organization_id (set_network_id) calls the
\* stored name is unset or is the name given with the stored id; a name
\* never stays attached to another id.
C27_NameBelongsToId ==
  /\ organization_name \in {None, NameOf(organization_id)}
  /\ network_name \in {None, NameOf(network_id)}

\* C30: a network listing for one organization changes no other
\* organization's entry of the networks cache and not the organizations
\* cache; an organization listing does not change the networks cache.
C30_ListingsKeepOtherSlots ==
  [][/\ lastOp'.name = "list_networks" =>
          /\ organizations_cache' = organizations_cache
          /\ \A b \in CacheKeys :
                b # ResolvedOrganization(lastOp'.arg) =>
                   networks_cache'.map[b] = networks_cache.map[b]
     /\ lastOp'.name = "list_organizations" => networks_cache' = networks_cache]_vars

\* a failed network listing for the second organization has stored the
\* empty list for it, next to the first organization's cached networks and
\* the cached organizations
C30_Witness ==
  /\ lastOp.name = "list_networks" /\ lastOp.arg = OrgPool[2]
  /\ lastOp.vendor.kind = "APIError"
  /\ networks_cache.map[OrgPool[2]] = SomeList(<<>>)
  /\ networks_cache.map[OrgPool[1]] = SomeList(<<"n1">>)
  /\ organizations_cache = SomeList(<<OrgPool[1]>>)

\* C25: when a required organization id (or network id) is not supplied,
\* app_setup goes on to retrieve the listing and prompt for a selection
\* instead of returning None before the prompt.
C25_PromptsForMissingId ==
  /\ lastOp.name = "app_setup"
  /\ check_required_parameter_order(lastOp.req)
  /\ is_api_key_set(api_key)
  /\ \/ lastOp.req.organization_id /\ ~Truthy(lastOp.arg.organization_id)
     \/ lastOp.req.network_id /\ ~Truthy(lastOp.arg.network_id)
  => lastRet.details # "setup_application_parameters"

\* C29: for every non-empty API key the value shown by
\* get_current_app_params (and by the legacy get_current_params) has the
\* key's length, shows at most the key's last 4 characters, and differs
\* from the key.
C29_KeyNeverInCleartext ==
  /\ lastOp.name \in {"get_current_app_params", "get_current_params"}
  /\ lastRet.b
  /\ Truthy(api_key)
  => /\ Len(lastRet.data) = Len(Chars(api_key))
     /\ \A i \in 1..(Len(lastRet.data) - 4) : lastRet.data[i] = "*"
     /\ lastRet.data # Chars(api_key)

\* the rows of a returned profile listing that show profile q
RowsOf(q) == {i \in 1..Len(lastRet.data) : lastRet.data[i].profile_id = q}
\* vendor data v holds profile q; v has an assignment of q
Holds(v, q) == \E i \in 1..Len(v.profiles) : v.profiles[i] = q
Assigns(v, q) == \E i \in 1..Len(v.assignments) : v.assignments[i].profile = q
\* C21: against a vendor that applies each accepted call, create_profile
\* returns the new profile's id and the name; a profile listing returned
\* afterwards contains the profile, with network name [unassigned] while it
\* has no assignment; after an accepted delete_profile of its id a profile
\* listing no longer contains it.
C21_ProfileLifecycle ==
  /\ [][(lastOp'.name = "create_profile" /\ lastOp'.vendor = Created) =>
          /\ Len(vendor'.profiles) = Len(vendor.profiles) + 1
          /\ ~HasProfile(vendor'.profiles[Len(vendor'.profiles)])
          /\ lastRet'.kind = "dict"
          /\ lastRet'.data = <<vendor'.profiles[Len(vendor'.profiles)], lastOp'.arg>>
          /\ Holds(vendor', lastRet'.data[1])
          /\ ~Assigns(vendor', lastRet'.data[1])]_vars
  /\ [](ReturnedProfiles =>
          \A q \in ProfileIds :
             /\ HasProfile(q) <=> RowsOf(q) # {}
             /\ (HasProfile(q) /\ AssignmentsOf(q) = {}) =>
                   \A i \in RowsOf(q) : lastRet.data[i].network_name = Unassigned)
  /\ [][(lastOp'.name = "delete_profile" /\ lastOp'.vendor = Deleted) =>
          /\ Holds(vendor, lastOp'.arg)
          /\ ~Holds(vendor', lastOp'.arg)
          /\ lastRet'.kind # "error"]_vars

\* a second profile was created while the first has an assignment, and the
\* listing shows it unassigned
C21_Witness ==
  /\ ReturnedProfiles
  /\ vendor.profiles = <<"p1", "p2">>
  /\ AssignmentsOf("p1") # {} /\ AssignmentsOf("p2") = {}
  /\ lastRet.data[2].profile_id = "p2"
  /\ lastRet.data[2].network_name = Unassigned
  /\ lastRet.data[1].network_name # Unassigned

\* the display shows the first entries of the buffer, each once, in order
ShowsPrefix(s) ==
  /\ Len(display[s]) <= Len(log_entries)
  /\ \A i \in 1..Len(display[s]) : display[s][i] = log_entries[i]
\* a poller is between polls, its last poll saw the whole buffer, and
\* nothing is left to render
Idle(s) ==
  /\ pollers[s].pc = "acquire"
  /\ pollers[s].current_log_count = Len(log_entries)
  /\ last_displayed_log_index >= Len(log_entries)

\* C23: every access to the log buffer (handler append, poller length read
\* and entry reads, CSV export iteration) happens while the accessing
\* thread holds the log lock, and the lock is not held across a UI write.
C23_BufferAccessUnderLock ==
  [][/\ \A s \in Sessions :
          /\ (pollers[s].pc = "count" /\ pollers'[s].pc = "test") => log_entries_lock = s
          /\ (pollers[s].pc = "read" /\ pollers'[s].pc = "put") => log_entries_lock = s
          /\ display'[s] # display[s] => log_entries_lock # s
          /\ (pollers'[s] # pollers[s] /\ log_entries' # log_entries) =>
                log_entries_lock = s
     /\ (pollers' = pollers /\ log_entries' # log_entries) =>
           log_entries_lock \notin {None} \cup Sessions]_vars

\* C26: across polls interleaved with appends, also when rendering an entry
\* raises, the poller renders each entry once and in append order, skipping
\* none.
C26_RenderedOnceInOrder ==
  /\ ShowsPrefix("s1")
  /\ Idle("s1") => Len(display["s1"]) = Len(log_entries)

\* C28: with a poller in each of two sessions, every entry appended after
\* both have started is rendered in both displays.
C28_BothSessionsShowEntries ==
  (\A s \in Sessions : Idle(s)) =>
     \A s \in Sessions, e \in 1..Len(log_entries) :
        (\A t \in Sessions : e > pollers[t].started) =>
           \E i \in 1..Len(display[s]) : display[s][i] = e

====
